---------------------------- MODULE Spec2Model ----------------------------
(***************************************************************************)
(* A model of the pairing and ranking engine of the karate club system:    *)
(* the auto-matchmaker (core/services/matchmaking.py), the confirmation    *)
(* of its proposals and the manual bout forms (core/views/admin.py), the   *)
(* result entry (core/views/judge.py) and the points / promotion /         *)
(* leaderboard chain run by MatchResult.save (core/models.py).             *)
(*                                                                         *)
(* Units.  Trainee.weight is a Decimal with two decimal places; the model  *)
(* keeps it as an integer number of hundredths of a kilogram.  The pairing *)
(* score is a Python float, (float(weight_diff) * 2) + (belt_diff * 3) +   *)
(* age_diff; the model keeps it in hundredths as well.  Over the values    *)
(* the model draws (scores below 32) the float computation orders pairs,   *)
(* ties included, exactly as the exact value does.                         *)
(***************************************************************************)
EXTENDS Integers, Sequences, FiniteSets, TLC

\* ------------------------------------------------------------------ bounds
MaxRoster == 4   \* longest list of available trainees the matchmaker is given
MaxRegs == 2     \* EventRegistration rows
MaxMatches == 1  \* Match rows
MaxConfirmMatches == 2  \* Match rows where proposals are stored and confirmed
MaxResultMatches == 2   \* Match rows where results are recorded
MaxAwards == 3   \* points updates of one trainee in the ledger runs
MaxOverrides == 2  \* manual promotions in the ledger runs

\* ------------------------------------------------------- program constants
MAX_WEIGHT_DIFF == 500       \* Decimal('5.0') kg, in hundredths
MAX_AGE_DIFF == 3
MIN_JUDGES_REQUIRED == 3
WIN_POINTS == 30
LOSS_POINTS == 10

\* Trainee.age returns None when the profile has no date of birth.
None == -1

BELT_ORDER == <<"white", "yellow", "orange", "green", "blue", "brown", "black">>

\* Trainee.BELT_CHOICES, the keys only.
BELT_CHOICES == <<"white", "yellow", "orange", "green", "blue", "brown", "black">>

VARIABLES
    roster,         \* the matchmaker's input: the list available_trainees
    proposed,       \* the list auto_match returned for roster
    pairing,        \* the verdict and score computed for the pair roster[1], roster[2]
    trainees,       \* Trainee rows: id -> weight, belt_rank, age
    registrations,  \* EventRegistration rows, newest first (ordering -registered_at)
    matches,        \* Match rows: id -> event, competitor1, competitor2, status, winner
    match_judges,   \* MatchJudge rows: the set of <<match id, judge id>>
    session,        \* per admin session: auto_match_event_id and proposed_matches
    results,        \* MatchResult rows: match id -> judge, winner, scores, notes, is_locked
    points,         \* TraineePoints rows: trainee id -> total_points, wins, losses
    progress,       \* BeltRankProgress rows, oldest first
    leaderboard,    \* Leaderboard rows: the set of trainee, timeframe, rank, points, belt_rank
    response,       \* the outcome of the last result_entry request or assign_judges call
    proc            \* concurrent result_entry requests: statement reached and local objects

pureVars == <<roster, proposed, pairing>>
matchVars == <<registrations, matches, match_judges, session>>
ledgerVars == <<results, points, progress, leaderboard, response, proc>>
vars == <<roster, proposed, pairing, trainees, registrations, matches, match_judges,
          session, results, points, progress, leaderboard, response, proc>>

\* ------------------------------------------------------------- arithmetic
abs(n) == IF n < 0 THEN -n ELSE n

SeqToSet(s) == {s[k] : k \in 1..Len(s)}

\* ------------------------------------------------------ eligibility rules

\* BELT_ORDER.index(belt_rank), 0-based; -1 on ValueError.
get_belt_index(belt_rank) ==
    IF \E k \in 1..Len(BELT_ORDER) : BELT_ORDER[k] = belt_rank
    THEN (CHOOSE k \in 1..Len(BELT_ORDER) : BELT_ORDER[k] = belt_rank) - 1
    ELSE -1

\* A plausible slip: the "not found" guard is dropped.
are_belts_adjacent_noguard(belt1, belt2) ==
    abs(get_belt_index(belt1) - get_belt_index(belt2)) <= 1

are_belts_adjacent(belt1, belt2) ==
    LET idx1 == get_belt_index(belt1)
        idx2 == get_belt_index(belt2)
    IN  IF idx1 = -1 \/ idx2 = -1
        THEN FALSE
        ELSE abs(idx1 - idx2) <= 1

\* A plausible slip: the ages are tested for truth, not for "is not None",
\* so an age of 0 skips the age constraint.
_is_valid_pairing_truthy(t1, t2) ==
    /\ abs(t1.weight - t2.weight) <= MAX_WEIGHT_DIFF
    /\ are_belts_adjacent(t1.belt_rank, t2.belt_rank)
    /\ (t1.age > 0 /\ t2.age > 0) => abs(t1.age - t2.age) <= MAX_AGE_DIFF

\* A plausible slip: the age constraint is left out.
_is_valid_pairing_no_age(t1, t2) ==
    /\ abs(t1.weight - t2.weight) <= MAX_WEIGHT_DIFF
    /\ are_belts_adjacent(t1.belt_rank, t2.belt_rank)

_is_valid_pairing(t1, t2) ==
    LET weight_diff == abs(t1.weight - t2.weight)
        age1 == t1.age
        age2 == t2.age
    IN  IF weight_diff > MAX_WEIGHT_DIFF THEN FALSE
        ELSE IF ~are_belts_adjacent(t1.belt_rank, t2.belt_rank) THEN FALSE
        ELSE IF age1 # None /\ age2 # None /\ abs(age1 - age2) > MAX_AGE_DIFF THEN FALSE
        ELSE TRUE

\* "t.age or 0": None and 0 both give 0.
age_or_0(age) == IF age = None \/ age = 0 THEN 0 ELSE age

\* A plausible slip: the multipliers of weight and belt are swapped.
_calculate_pairing_score_swapped(t1, t2) ==
    (abs(t1.weight - t2.weight) * 3)
    + (abs(get_belt_index(t1.belt_rank) - get_belt_index(t2.belt_rank)) * 200)
    + abs(age_or_0(t1.age) - age_or_0(t2.age)) * 100

\* In hundredths: weight_diff is already in hundredths, the other two terms
\* are whole numbers and are scaled by 100.
_calculate_pairing_score(t1, t2) ==
    LET weight_diff == abs(t1.weight - t2.weight)
        belt_diff == abs(get_belt_index(t1.belt_rank) - get_belt_index(t2.belt_rank))
        age1 == age_or_0(t1.age)
        age2 == age_or_0(t2.age)
        age_diff == abs(age1 - age2)
    IN  (weight_diff * 2) + (belt_diff * 3) * 100 + age_diff * 100

\* ------------------------------------------------------------ auto-matchmaker

\* The nested loops of auto_match over available_trainees: for each i, each
\* later j, keeping the valid pairings with their score, in that order.
RECURSIVE all_pairings_from(_, _, _)
all_pairings_from(available_trainees, i, j) ==
    IF i > Len(available_trainees) THEN <<>>
    ELSE IF j > Len(available_trainees)
         THEN all_pairings_from(available_trainees, i + 1, i + 2)
         ELSE LET t1 == available_trainees[i]
                  t2 == available_trainees[j]
                  here == IF _is_valid_pairing(t1, t2)
                          THEN << [t1 |-> t1, t2 |-> t2,
                                   score |-> _calculate_pairing_score(t1, t2)] >>
                          ELSE <<>>
              IN  here \o all_pairings_from(available_trainees, i, j + 1)

all_pairings(available_trainees) == all_pairings_from(available_trainees, 1, 2)

\* list.sort(key=lambda x: x[2]) is stable: x goes after every element whose
\* score is not greater.
RECURSIVE insert_by_score(_, _)
insert_by_score(sorted, x) ==
    IF sorted = <<>> THEN <<x>>
    ELSE IF x.score < Head(sorted).score
         THEN <<x>> \o sorted
         ELSE <<Head(sorted)>> \o insert_by_score(Tail(sorted), x)

\* A plausible slip: a sort that puts x before the elements of equal score.
RECURSIVE insert_by_score_unstable(_, _)
insert_by_score_unstable(sorted, x) ==
    IF sorted = <<>> THEN <<x>>
    ELSE IF x.score <= Head(sorted).score
         THEN <<x>> \o sorted
         ELSE <<Head(sorted)>> \o insert_by_score_unstable(Tail(sorted), x)

RECURSIVE sort_unstable(_)
sort_unstable(pairings) ==
    IF pairings = <<>> THEN <<>>
    ELSE insert_by_score_unstable(sort_unstable(SubSeq(pairings, 1, Len(pairings) - 1)),
                                  pairings[Len(pairings)])

RECURSIVE sort_by_score(_)
sort_by_score(pairings) ==
    IF pairings = <<>> THEN <<>>
    ELSE insert_by_score(sort_by_score(SubSeq(pairings, 1, Len(pairings) - 1)),
                         pairings[Len(pairings)])

ProposedMatch(t1, t2, score) ==
    [competitor1 |-> t1, competitor2 |-> t2,
     weight_diff |-> abs(t1.weight - t2.weight),
     belt_diff |-> abs(get_belt_index(t1.belt_rank) - get_belt_index(t2.belt_rank)),
     age_diff |-> abs(age_or_0(t1.age) - age_or_0(t2.age)),
     score |-> score]

\* A plausible slip: the used_trainees test is dropped.
RECURSIVE select_all(_, _, _)
select_all(pairings, k, used_trainees) ==
    IF k > Len(pairings) THEN <<>>
    ELSE << ProposedMatch(pairings[k].t1, pairings[k].t2, pairings[k].score) >>
         \o select_all(pairings, k + 1, used_trainees)

\* A plausible slip: the walk ends at the first pairing with a used trainee
\* (break for continue).
RECURSIVE select_until_used(_, _, _)
select_until_used(pairings, k, used_trainees) ==
    IF k > Len(pairings) THEN <<>>
    ELSE LET t1 == pairings[k].t1
             t2 == pairings[k].t2
         IN  IF t1.id \notin used_trainees /\ t2.id \notin used_trainees
             THEN << ProposedMatch(t1, t2, pairings[k].score) >>
                  \o select_until_used(pairings, k + 1, used_trainees \cup {t1.id, t2.id})
             ELSE <<>>

\* The greedy walk over the sorted pairings.
RECURSIVE select_greedy(_, _, _)
select_greedy(pairings, k, used_trainees) ==
    IF k > Len(pairings) THEN <<>>
    ELSE LET t1 == pairings[k].t1
             t2 == pairings[k].t2
         IN  IF t1.id \notin used_trainees /\ t2.id \notin used_trainees
             THEN << ProposedMatch(t1, t2, pairings[k].score) >>
                  \o select_greedy(pairings, k + 1, used_trainees \cup {t1.id, t2.id})
             ELSE select_greedy(pairings, k + 1, used_trainees)

\* Lines 88-121 of auto_match: from available_trainees to proposed_matches.
propose_from(available_trainees) ==
    select_greedy(sort_by_score(all_pairings(available_trainees)), 1, {})

\* ------------------------------------------------------------- the database

\* The people and events of the model.  Judge 1 is also trainee 3 (the
\* judge's profile has a trainee record); the other judges are not trainees.
Trainees == {1, 2, 3}
Events == {1, 2}
Judges == {1, 2, 3, 4}
Sessions == {1, 2}

JudgeTrainee == [j \in Judges |-> IF j = 1 THEN 3 ELSE None]

\* The Trainee rows the stateful specifications start from.
TraineeTable ==
    [t \in Trainees |->
        CASE t = 1 -> [weight |-> 6000, belt_rank |-> "white", age |-> 10]
          [] t = 2 -> [weight |-> 6200, belt_rank |-> "white", age |-> 11]
          [] t = 3 -> [weight |-> 6100, belt_rank |-> "yellow", age |-> None]]

NoSession == [auto_match_event_id |-> None, proposed_matches |-> <<>>]

NoPairing == [done |-> FALSE, valid |-> FALSE, score |-> 0, valid_ba |-> FALSE, score_ba |-> 0]
NoProposal == [called |-> FALSE, event |-> None, result |-> <<>>]

\* A TraineePoints row as get_or_create creates it.
NoPoints == [total_points |-> 0, wins |-> 0, losses |-> 0]

\* The two result_entry requests that may run side by side.
Requests == {1, 2}
\* A request that has not begun: no statement reached, no local objects.
IdleRequest ==
    [pc |-> "idle", judge |-> None, match_id |-> None, match |-> None, winner |-> None,
     loser |-> None, winner_belt |-> "", loser_belt |-> "",
     winner_points |-> NoPoints, loser_points |-> NoPoints]
NoRequests == [p \in Requests |-> IdleRequest]

\* The database as it is before any registration, bout or result.
EmptyDatabase ==
    /\ trainees = TraineeTable
    /\ registrations = <<>>
    /\ matches = <<>>
    /\ match_judges = {}
    /\ session = [s \in Sessions |-> NoSession]
    /\ results = <<>>
    /\ points = <<>>
    /\ progress = <<>>
    /\ leaderboard = {}
    /\ response = "none"
    /\ proc = NoRequests

\* The Trainee object of a row.
Trainee(id) ==
    [id |-> id, weight |-> trainees[id].weight, belt_rank |-> trainees[id].belt_rank,
     age |-> trainees[id].age]

MatchIds == DOMAIN matches

\* A plausible slip: cancelled matches are not excluded.
matched_trainee_ids_all(event_id) ==
    UNION {{matches[m].competitor1, matches[m].competitor2} :
              m \in {x \in MatchIds : matches[x].event = event_id}}

\* The ids of the trainees on either side of a non-cancelled match of the event.
matched_trainee_ids(event_id) ==
    UNION {{matches[m].competitor1, matches[m].competitor2} :
              m \in {x \in MatchIds : matches[x].event = event_id
                                       /\ matches[x].status # "cancelled"}}

\* The trainees of the event's registrations with status 'registered', in
\* the order of the rows.
RECURSIVE registered_trainees_from(_, _)
registered_trainees_from(event_id, k) ==
    IF k > Len(registrations) THEN <<>>
    ELSE (IF registrations[k].event = event_id /\ registrations[k].status = "registered"
          THEN << Trainee(registrations[k].trainee) >>
          ELSE <<>>)
         \o registered_trainees_from(event_id, k + 1)

registered_trainees(event_id) == registered_trainees_from(event_id, 1)

RECURSIVE filter_available(_, _)
filter_available(ts, matched) ==
    IF ts = <<>> THEN <<>>
    ELSE (IF Head(ts).id \notin matched THEN <<Head(ts)>> ELSE <<>>)
         \o filter_available(Tail(ts), matched)

\* Lines 68-86 of auto_match.
available_trainees(event_id) ==
    filter_available(registered_trainees(event_id), matched_trainee_ids(event_id))

auto_match(event_id) == propose_from(available_trainees(event_id))

\* A plausible slip: cancelled matches are not excluded.
validate_judge_assignment_any_status(judge_id, event_id) ==
    LET trainee == JudgeTrainee[judge_id]
    IN  IF trainee = None THEN TRUE
        ELSE ~(\/ \E k \in 1..Len(registrations) :
                     /\ registrations[k].event = event_id
                     /\ registrations[k].trainee = trainee
                     /\ registrations[k].status = "registered"
               \/ \E m \in MatchIds :
                     /\ matches[m].event = event_id
                     /\ (matches[m].competitor1 = trainee \/ matches[m].competitor2 = trainee))

\* validate_judge_assignment: True when the judge may be assigned.
validate_judge_assignment(judge_id, event_id) ==
    LET trainee == JudgeTrainee[judge_id]
    IN  IF trainee = None THEN TRUE
        ELSE LET is_registered ==
                     \E k \in 1..Len(registrations) :
                         /\ registrations[k].event = event_id
                         /\ registrations[k].trainee = trainee
                         /\ registrations[k].status = "registered"
                 is_competitor ==
                     \E m \in MatchIds :
                         /\ matches[m].event = event_id
                         /\ (matches[m].competitor1 = trainee \/ matches[m].competitor2 = trainee)
                         /\ matches[m].status # "cancelled"
             IN  ~(is_registered \/ is_competitor)

\* Match.objects.create: the new row, status 'scheduled', no winner.
NewMatch(event_id, competitor1_id, competitor2_id) ==
    [event |-> event_id, competitor1 |-> competitor1_id, competitor2 |-> competitor2_id,
     status |-> "scheduled", winner |-> None]

\* ------------------------------------------------- registrations (trainee views)

\* event_register: a row with status 'registered', one per (event, trainee).
event_register(event_id, trainee_id) ==
    /\ \A k \in 1..Len(registrations) :
           ~(registrations[k].event = event_id /\ registrations[k].trainee = trainee_id)
    /\ registrations' = <<[event |-> event_id, trainee |-> trainee_id,
                           status |-> "registered"]>> \o registrations
    /\ UNCHANGED <<pureVars, trainees, matches, match_judges, session, ledgerVars>>

\* event_unregister: the row's status leaves 'registered'.
event_unregister(event_id, trainee_id) ==
    /\ \E k \in 1..Len(registrations) :
           /\ registrations[k].event = event_id
           /\ registrations[k].trainee = trainee_id
           /\ registrations[k].status = "registered"
           /\ registrations' = [registrations EXCEPT ![k].status = "cancelled"]
    /\ UNCHANGED <<pureVars, trainees, matches, match_judges, session, ledgerVars>>

\* ------------------------------------------------------ bout forms (admin views)

\* match_add (POST): rejected when the competitors are the same or a judge
\* fails the conflict validator; otherwise the match and its judge rows are
\* created.
match_add(event_id, competitor1_id, competitor2_id, judge_ids) ==
    /\ competitor1_id # competitor2_id
    /\ \A k \in 1..Len(judge_ids) : validate_judge_assignment(judge_ids[k], event_id)
    /\ LET id == Cardinality(MatchIds) + 1
       IN  /\ matches' = Append(matches, NewMatch(event_id, competitor1_id, competitor2_id))
           /\ match_judges' = match_judges \cup {<<id, judge_ids[k]>> : k \in 1..Len(judge_ids)}
    /\ UNCHANGED <<pureVars, trainees, registrations, session, ledgerVars>>

\* match_edit (POST): the same validation, then every field of the match is
\* overwritten and the judge rows are replaced.
match_edit(match_id, event_id, competitor1_id, competitor2_id, status, judge_ids) ==
    /\ match_id \in MatchIds
    /\ competitor1_id # competitor2_id
    /\ \A k \in 1..Len(judge_ids) : validate_judge_assignment(judge_ids[k], event_id)
    /\ matches' = [matches EXCEPT ![match_id] =
                       [event |-> event_id, competitor1 |-> competitor1_id,
                        competitor2 |-> competitor2_id, status |-> status,
                        winner |-> matches[match_id].winner]]
    /\ match_judges' = {mj \in match_judges : mj[1] # match_id}
                          \cup {<<match_id, judge_ids[k]>> : k \in 1..Len(judge_ids)}
    /\ UNCHANGED <<pureVars, trainees, registrations, session, ledgerVars>>

\* auto_matchmaking (POST): the proposals of auto_match are stored in the
\* session, ids only, with the event id.
auto_matchmaking(s, event_id) ==
    /\ LET pms == auto_match(event_id)
       IN  session' = [session EXCEPT ![s] =
               [auto_match_event_id |-> event_id,
                proposed_matches |->
                    [k \in 1..Len(pms) |->
                        [competitor1_id |-> pms[k].competitor1.id,
                         competitor2_id |-> pms[k].competitor2.id]]]]
    /\ UNCHANGED <<pureVars, trainees, registrations, matches, match_judges, ledgerVars>>

\* The matches auto_matchmaking_confirm creates for the selected indices, in order.
RECURSIVE confirmed_matches(_, _, _)
confirmed_matches(event_id, proposed_matches, selected_indices) ==
    IF selected_indices = <<>> THEN <<>>
    ELSE LET idx == Head(selected_indices)
         IN  (IF 0 <= idx /\ idx < Len(proposed_matches)
              THEN << NewMatch(event_id, proposed_matches[idx + 1].competitor1_id,
                               proposed_matches[idx + 1].competitor2_id) >>
              ELSE <<>>)
             \o confirmed_matches(event_id, proposed_matches, Tail(selected_indices))

\* auto_matchmaking_confirm (POST): with an event and proposals in the
\* session, a match is created for each selected index and the session
\* data is cleared; without them nothing happens.
auto_matchmaking_confirm(s, selected_indices) ==
    /\ session[s].auto_match_event_id # None
    /\ session[s].proposed_matches # <<>>
    /\ LET created == confirmed_matches(session[s].auto_match_event_id,
                                        session[s].proposed_matches, selected_indices)
       IN  matches' = matches \o created
    /\ session' = [session EXCEPT ![s] = NoSession]
    /\ UNCHANGED <<pureVars, trainees, registrations, match_judges, ledgerVars>>

\* ----------------------------------------- points, promotion and leaderboard

\* BeltRankThreshold rows: belt_rank -> points_required.  Ranks without a
\* row take the DoesNotExist branch.
ThresholdTable == [b \in {"yellow", "orange"} |-> IF b = "yellow" THEN 30 ELSE 60]

Timeframes == {"all_time", "yearly", "monthly"}

get_or_create(pts, t) == IF t \in DOMAIN pts THEN pts ELSE (t :> NoPoints) @@ pts

\* [belt[0] for belt in BELT_CHOICES].index(belt_rank), from 1; 0 stands for
\* the ValueError of a rank that is not in the list.
choices_index(belt_rank) ==
    IF \E i \in 1..Len(BELT_CHOICES) : BELT_CHOICES[i] = belt_rank
    THEN CHOOSE i \in 1..Len(BELT_CHOICES) : BELT_CHOICES[i] = belt_rank
    ELSE 0

\* A plausible slip: the promotion is repeated while the total meets the
\* threshold of the following rank.
check_belt_rank_promotion_cascade(db, t) ==
    LET k == choices_index(db.trainees[t].belt_rank)
        met(j) == /\ BELT_CHOICES[j] \in DOMAIN ThresholdTable
                  /\ db.points[t].total_points >= ThresholdTable[BELT_CHOICES[j]]
        reach == {j \in (k + 1)..Len(BELT_CHOICES) : \A i \in (k + 1)..j : met(i)}
    IN  IF k = 0 THEN [db |-> db, raised |-> TRUE]
        ELSE IF reach = {} THEN [db |-> db, raised |-> FALSE]
        ELSE LET top == CHOOSE j \in reach : \A i \in reach : i <= j
             IN  [db |-> [db EXCEPT
                            !.trainees[t].belt_rank = BELT_CHOICES[top],
                            !.progress = Append(@,
                                [trainee |-> t,
                                 old_belt_rank |-> BELT_CHOICES[k],
                                 new_belt_rank |-> BELT_CHOICES[top],
                                 points_earned |-> db.points[t].total_points,
                                 promotion_type |-> "automatic"])],
                  raised |-> FALSE]

\* check_belt_rank_promotion on the TraineePoints row of t.  db holds the
\* tables trainees, points and progress; raised tells that the call ended
\* in an exception.
check_belt_rank_promotion(db, t) ==
    LET current_belt_index == choices_index(db.trainees[t].belt_rank)
    IN  IF current_belt_index = 0 THEN [db |-> db, raised |-> TRUE]
        ELSE IF current_belt_index < Len(BELT_CHOICES)
                /\ BELT_CHOICES[current_belt_index + 1] \in DOMAIN ThresholdTable
                /\ db.points[t].total_points
                       >= ThresholdTable[BELT_CHOICES[current_belt_index + 1]]
        THEN LET next_belt == BELT_CHOICES[current_belt_index + 1]
             IN  [db |-> [db EXCEPT
                            !.trainees[t].belt_rank = next_belt,
                            !.progress = Append(@,
                                [trainee |-> t,
                                 old_belt_rank |-> BELT_CHOICES[current_belt_index],
                                 new_belt_rank |-> next_belt,
                                 points_earned |-> db.points[t].total_points,
                                 promotion_type |-> "automatic"])],
                  raised |-> FALSE]
        ELSE [db |-> db, raised |-> FALSE]

\* A plausible slip: the promotion is evaluated before the points are added.
add_win_check_first(db, t) ==
    LET c == check_belt_rank_promotion(db, t)
    IN  [c EXCEPT !.db.points[t] = [total_points |-> @.total_points + WIN_POINTS,
                                    wins |-> @.wins + 1, losses |-> @.losses]]

add_win(db, t) ==
    check_belt_rank_promotion(
        [db EXCEPT !.points[t] = [total_points |-> @.total_points + WIN_POINTS,
                                  wins |-> @.wins + 1, losses |-> @.losses]], t)

add_loss(db, t) ==
    check_belt_rank_promotion(
        [db EXCEPT !.points[t] = [total_points |-> @.total_points + LOSS_POINTS,
                                  wins |-> @.wins, losses |-> @.losses + 1]], t)

\* The try block of _award_match_points up to the leaderboards: both rows
\* are fetched or created, then the winner's and the loser's awards run;
\* an exception ends the block where it is raised.
award_both(db, winner, loser) ==
    LET rows == [db EXCEPT !.points = get_or_create(get_or_create(db.points, winner), loser)]
        w == add_win(rows, winner)
    IN  IF w.raised THEN w ELSE add_loss(w.db, loser)

\* The orders TraineePoints.objects.all().order_by('-total_points') may
\* return: trainee -> position, rows with equal totals in any order.
RankOrders(pts) ==
    {rk \in [DOMAIN pts -> 1..Cardinality(DOMAIN pts)] :
        /\ \A a \in DOMAIN pts, b \in DOMAIN pts : a # b => rk[a] # rk[b]
        /\ \A a \in DOMAIN pts, b \in DOMAIN pts :
               pts[a].total_points > pts[b].total_points => rk[a] < rk[b]}

\* The rows _update_timeframe_leaderboard writes for one timeframe.
timeframe_rows(timeframe, rk, pts, trs) ==
    {[trainee |-> t, timeframe |-> timeframe, rank |-> rk[t],
      points |-> pts[t].total_points, belt_rank |-> trs[t].belt_rank] : t \in DOMAIN pts}

\* _update_leaderboards: update_or_create replaces the row of each
\* (trainee, timeframe) that has a TraineePoints row.
_update_leaderboards(board, pts, trs, rk_all, rk_year, rk_month) ==
    {row \in board : row.trainee \notin DOMAIN pts}
        \cup timeframe_rows("all_time", rk_all, pts, trs)
        \cup timeframe_rows("yearly", rk_year, pts, trs)
        \cup timeframe_rows("monthly", rk_month, pts, trs)

\* trainee_edit (POST): the posted belt_rank is stored when it is not empty.
trainee_edit(trainee_id, belt_rank) ==
    /\ belt_rank # ""
    /\ trainees' = [trainees EXCEPT ![trainee_id].belt_rank = belt_rank]
    /\ UNCHANGED <<pureVars, matchVars, ledgerVars>>

\* A plausible slip: the override is refused unless the total has reached a
\* threshold set for the new rank.
belt_rank_promote_gated(trainee_id, new_belt_rank, actor, admin_notes) ==
    IF (\/ new_belt_rank \notin DOMAIN ThresholdTable
        \/ get_or_create(points, trainee_id)[trainee_id].total_points
               < ThresholdTable[new_belt_rank])
       \/ new_belt_rank \notin SeqToSet(BELT_CHOICES)
    THEN /\ response' = "invalid_rank"
         /\ UNCHANGED <<pureVars, trainees, matchVars, results, points, progress,
                         leaderboard, proc>>
    ELSE IF new_belt_rank = trainees[trainee_id].belt_rank
    THEN /\ response' = "same_rank"
         /\ UNCHANGED <<pureVars, trainees, matchVars, results, points, progress,
                         leaderboard, proc>>
    ELSE /\ trainees' = [trainees EXCEPT ![trainee_id].belt_rank = new_belt_rank]
         /\ progress' = Append(progress,
                [trainee |-> trainee_id,
                 old_belt_rank |-> trainees[trainee_id].belt_rank,
                 new_belt_rank |-> new_belt_rank,
                 points_earned |-> IF trainee_id \in DOMAIN points
                                   THEN points[trainee_id].total_points ELSE 0,
                 promotion_type |-> "admin_override",
                 admin_notes |-> admin_notes,
                 promoted_by |-> actor])
         /\ response' = "promoted"
         /\ UNCHANGED <<pureVars, matchVars, results, points, leaderboard, proc>>

\* belt_rank_promote (POST): a rank outside BELT_CHOICES or equal to the
\* current one shows the form again; otherwise the rank is stored and a
\* BeltRankProgress row of type admin_override is created with the
\* trainee's total points, 0 when the trainee has no TraineePoints row.
belt_rank_promote(trainee_id, new_belt_rank, actor, admin_notes) ==
    IF new_belt_rank \notin SeqToSet(BELT_CHOICES)
    THEN /\ response' = "invalid_rank"
         /\ UNCHANGED <<pureVars, trainees, matchVars, results, points, progress,
                         leaderboard, proc>>
    ELSE IF new_belt_rank = trainees[trainee_id].belt_rank
    THEN /\ response' = "same_rank"
         /\ UNCHANGED <<pureVars, trainees, matchVars, results, points, progress,
                         leaderboard, proc>>
    ELSE /\ trainees' = [trainees EXCEPT ![trainee_id].belt_rank = new_belt_rank]
         /\ progress' = Append(progress,
                [trainee |-> trainee_id,
                 old_belt_rank |-> trainees[trainee_id].belt_rank,
                 new_belt_rank |-> new_belt_rank,
                 points_earned |-> IF trainee_id \in DOMAIN points
                                   THEN points[trainee_id].total_points ELSE 0,
                 promotion_type |-> "admin_override",
                 admin_notes |-> admin_notes,
                 promoted_by |-> actor])
         /\ response' = "promoted"
         /\ UNCHANGED <<pureVars, matchVars, results, points, leaderboard, proc>>

\* ------------------------------------------ MatchmakingService, the write calls

\* create_match: the match and a MatchJudge row for each judge id, with no
\* validation of competitors or judges.
create_match(event_id, competitor1_id, competitor2_id, judge_ids) ==
    /\ LET id == Cardinality(MatchIds) + 1
       IN  /\ matches' = Append(matches, NewMatch(event_id, competitor1_id, competitor2_id))
           /\ match_judges' = match_judges \cup {<<id, judge_ids[k]>> : k \in 1..Len(judge_ids)}
    /\ UNCHANGED <<pureVars, trainees, registrations, session, ledgerVars>>

\* No assign_judges call is under way.
NoCall == [called |-> FALSE, match_id |-> None, judge_ids |-> <<>>, returned |-> "",
           before |-> {}]

\* The first position of the list whose judge id stands earlier in it, or 0.
first_duplicate(judge_ids) ==
    IF \E k \in 1..Len(judge_ids) : \E i \in 1..(k - 1) : judge_ids[i] = judge_ids[k]
    THEN CHOOSE k \in 1..Len(judge_ids) :
             /\ \E i \in 1..(k - 1) : judge_ids[i] = judge_ids[k]
             /\ \A h \in 1..(k - 1) : ~\E i \in 1..(h - 1) : judge_ids[i] = judge_ids[h]
    ELSE 0

\* A plausible slip: the match's rows are deleted before the checks.
assign_judges_delete_first(match_id, judge_ids) ==
    /\ match_id \in MatchIds
    /\ LET others == {mj \in match_judges : mj[1] # match_id}
           rejected == \/ Len(judge_ids) < MIN_JUDGES_REQUIRED
                       \/ \E k \in 1..Len(judge_ids) :
                              ~validate_judge_assignment(judge_ids[k], matches[match_id].event)
       IN  /\ response' = [NoCall EXCEPT !.called = TRUE, !.match_id = match_id,
                                         !.judge_ids = judge_ids, !.before = match_judges,
                                         !.returned = IF rejected THEN "False" ELSE "True"]
           /\ match_judges' = IF rejected THEN others
                              ELSE others \cup {<<match_id, judge_ids[k]>> :
                                                   k \in 1..Len(judge_ids)}
    /\ UNCHANGED <<pureVars, trainees, registrations, matches, session, results, points,
                    progress, leaderboard, proc>>

\* A plausible slip: the new rows are added to the match's rows.
assign_judges_merge(match_id, judge_ids) ==
    /\ match_id \in MatchIds
    /\ LET rejected == \/ Len(judge_ids) < MIN_JUDGES_REQUIRED
                       \/ \E k \in 1..Len(judge_ids) :
                              ~validate_judge_assignment(judge_ids[k], matches[match_id].event)
       IN  /\ response' = [NoCall EXCEPT !.called = TRUE, !.match_id = match_id,
                                         !.judge_ids = judge_ids, !.before = match_judges,
                                         !.returned = IF rejected THEN "False" ELSE "True"]
           /\ match_judges' = IF rejected THEN match_judges
                              ELSE match_judges \cup {<<match_id, judge_ids[k]>> :
                                                         k \in 1..Len(judge_ids)}
    /\ UNCHANGED <<pureVars, trainees, registrations, matches, session, results, points,
                    progress, leaderboard, proc>>

\* assign_judges: False for fewer than MIN_JUDGES_REQUIRED ids or an id that
\* fails validate_judge_assignment; otherwise the match's rows are deleted
\* and one is created per id, and True is returned.  A repeated id breaks
\* unique_together (match, judge): the create raises IntegrityError with
\* the rows before it written.  The call, the rows it found (before) and
\* what it returned are kept in response.
assign_judges(match_id, judge_ids) ==
    /\ match_id \in MatchIds
    /\ LET event_id == matches[match_id].event
           others == {mj \in match_judges : mj[1] # match_id}
           dup == first_duplicate(judge_ids)
           call == [NoCall EXCEPT !.called = TRUE, !.match_id = match_id,
                                  !.judge_ids = judge_ids, !.before = match_judges]
       IN  IF Len(judge_ids) < MIN_JUDGES_REQUIRED
           THEN /\ response' = [call EXCEPT !.returned = "False"]
                /\ UNCHANGED match_judges
           ELSE IF \E k \in 1..Len(judge_ids) :
                       ~validate_judge_assignment(judge_ids[k], event_id)
           THEN /\ response' = [call EXCEPT !.returned = "False"]
                /\ UNCHANGED match_judges
           ELSE IF dup # 0
           THEN /\ response' = [call EXCEPT !.returned = "IntegrityError"]
                /\ match_judges' = others \cup {<<match_id, judge_ids[k]>> : k \in 1..(dup - 1)}
           ELSE /\ response' = [call EXCEPT !.returned = "True"]
                /\ match_judges' = others \cup {<<match_id, judge_ids[k]>> :
                                                    k \in 1..Len(judge_ids)}
    /\ UNCHANGED <<pureVars, trainees, registrations, matches, session, results, points,
                    progress, leaderboard, proc>>

\* ------------------------------------------------ result entry (judge views)

\* The other competitor of the match, as _award_match_points picks it.
loser_of(match, winner_id) ==
    IF match.competitor2 = winner_id THEN match.competitor1 ELSE match.competitor2

\* A plausible slip: the immutability check is left out, so a second
\* submission takes the update path.
result_entry_no_lock_check(judge, match_id, winner_id) ==
    LET match == matches[match_id]
        existing_result == match_id \in DOMAIN results
    IN  IF <<match_id, judge>> \notin match_judges
        THEN /\ response' = "not_assigned"
             /\ UNCHANGED <<pureVars, trainees, matchVars, results, points, progress,
                             leaderboard, proc>>
        ELSE IF winner_id \notin {match.competitor1, match.competitor2}
        THEN /\ response' = "invalid_winner"
             /\ UNCHANGED <<pureVars, trainees, matchVars, results, points, progress,
                             leaderboard, proc>>
        ELSE /\ results' = (match_id :> [judge |-> IF existing_result
                                                   THEN results[match_id].judge ELSE judge,
                                         winner |-> winner_id, is_locked |-> TRUE])
                               @@ results
             /\ matches' = [matches EXCEPT ![match_id].winner = winner_id,
                                           ![match_id].status = "completed"]
             /\ IF existing_result
                THEN UNCHANGED <<trainees, points, progress, leaderboard>>
                ELSE LET a == award_both([trainees |-> trainees, points |-> points,
                                          progress |-> progress],
                                         winner_id, loser_of(match, winner_id))
                     IN  /\ trainees' = a.db.trainees
                         /\ points' = a.db.points
                         /\ progress' = a.db.progress
                         /\ IF a.raised
                            THEN leaderboard' = leaderboard
                            ELSE \E rk_all \in RankOrders(a.db.points),
                                    rk_year \in RankOrders(a.db.points),
                                    rk_month \in RankOrders(a.db.points) :
                                     leaderboard' = _update_leaderboards(leaderboard,
                                         a.db.points, a.db.trainees, rk_all, rk_year, rk_month)
             /\ response' = "recorded"
             /\ UNCHANGED <<pureVars, registrations, match_judges, session, proc>>

\* result_entry (POST) with MatchResult.save and _award_match_points.  The
\* request is turned away when the judge is not assigned, when a locked
\* result exists or when the winner is not a side of the match.  Otherwise
\* the result is stored locked, the match gets its winner and the status
\* 'completed', and a new result runs the award: an exception raised in it
\* is caught and printed, and what was saved before it stays saved.
\* The posted scores and notes are stored with the result and read by
\* nothing else; they are left out.
result_entry(judge, match_id, winner_id) ==
    LET match == matches[match_id]
        existing_result == match_id \in DOMAIN results
    IN  IF <<match_id, judge>> \notin match_judges
        THEN /\ response' = "not_assigned"
             /\ UNCHANGED <<pureVars, trainees, matchVars, results, points, progress,
                             leaderboard, proc>>
        ELSE IF existing_result /\ results[match_id].is_locked
        THEN /\ response' = "locked"
             /\ UNCHANGED <<pureVars, trainees, matchVars, results, points, progress,
                             leaderboard, proc>>
        ELSE IF winner_id \notin {match.competitor1, match.competitor2}
        THEN /\ response' = "invalid_winner"
             /\ UNCHANGED <<pureVars, trainees, matchVars, results, points, progress,
                             leaderboard, proc>>
        ELSE /\ results' = (match_id :> [judge |-> IF existing_result
                                                   THEN results[match_id].judge ELSE judge,
                                         winner |-> winner_id, is_locked |-> TRUE])
                               @@ results
             /\ matches' = [matches EXCEPT ![match_id].winner = winner_id,
                                           ![match_id].status = "completed"]
             /\ IF existing_result
                THEN UNCHANGED <<trainees, points, progress, leaderboard>>
                ELSE LET a == award_both([trainees |-> trainees, points |-> points,
                                          progress |-> progress],
                                         winner_id, loser_of(match, winner_id))
                     IN  /\ trainees' = a.db.trainees
                         /\ points' = a.db.points
                         /\ progress' = a.db.progress
                         /\ IF a.raised
                            THEN leaderboard' = leaderboard
                            ELSE \E rk_all \in RankOrders(a.db.points),
                                    rk_year \in RankOrders(a.db.points),
                                    rk_month \in RankOrders(a.db.points) :
                                     leaderboard' = _update_leaderboards(leaderboard,
                                         a.db.points, a.db.trainees, rk_all, rk_year, rk_month)
             /\ response' = "recorded"
             /\ UNCHANGED <<pureVars, registrations, match_judges, session, proc>>

\* ------------------------------- result entry, one database statement a step

\* Without a transaction every query and every save() commits on its own,
\* so two requests interleave between statements.  proc[p] holds the
\* statement request p has reached and its Python objects: the match, the
\* winner, the loser and the two TraineePoints instances as they were read.

\* The view up to MatchResult.objects.create: the judge is assigned, no
\* locked result exists, the winner is a side of the match.
begin_result_entry(p, judge, match_id, winner_id) ==
    /\ proc[p].pc = "idle"
    /\ <<match_id, judge>> \in match_judges
    /\ ~(match_id \in DOMAIN results /\ results[match_id].is_locked)
    /\ winner_id \in {matches[match_id].competitor1, matches[match_id].competitor2}
    /\ proc' = [proc EXCEPT ![p] =
                   [IdleRequest EXCEPT !.pc = "super_save", !.judge = judge,
                                       !.match_id = match_id, !.match = matches[match_id],
                                       !.winner = winner_id,
                                       !.winner_belt = trainees[winner_id].belt_rank]]
    /\ UNCHANGED <<pureVars, trainees, matchVars, results, points, progress, leaderboard,
                    response>>

\* super().save(): the INSERT; the one-to-one key rejects a second row for
\* the match and the request ends with that error.
super_save(p) ==
    /\ proc[p].pc = "super_save"
    /\ IF proc[p].match_id \in DOMAIN results
       THEN /\ proc' = [proc EXCEPT ![p].pc = "failed"]
            /\ UNCHANGED results
       ELSE /\ results' = (proc[p].match_id :> [judge |-> proc[p].judge,
                                                winner |-> proc[p].winner,
                                                is_locked |-> TRUE]) @@ results
            /\ proc' = [proc EXCEPT ![p].pc = "match_save"]
    /\ UNCHANGED <<pureVars, trainees, matchVars, points, progress, leaderboard, response>>

\* self.match.save(): the row is written from the request's match object.
match_save(p) ==
    /\ proc[p].pc = "match_save"
    /\ matches' = [matches EXCEPT ![proc[p].match_id] =
                       [proc[p].match EXCEPT !.winner = proc[p].winner,
                                             !.status = "completed"]]
    /\ proc' = [proc EXCEPT ![p].pc = "get_winner_points"]
    /\ UNCHANGED <<pureVars, trainees, registrations, match_judges, session, results,
                    points, progress, leaderboard, response>>

\* TraineePoints.objects.get_or_create(trainee=self.winner): a fetched
\* instance loads its trainee when it is first used.
get_winner_points(p) ==
    /\ proc[p].pc = "get_winner_points"
    /\ points' = get_or_create(points, proc[p].winner)
    /\ proc' = [proc EXCEPT ![p].pc = "get_loser_points",
                            ![p].winner_points = points'[proc[p].winner],
                            ![p].winner_belt = IF proc[p].winner \in DOMAIN points
                                               THEN "" ELSE @]
    /\ UNCHANGED <<pureVars, trainees, matchVars, results, progress, leaderboard, response>>

\* The loser is read from the match, then get_or_create(trainee=loser).
get_loser_points(p) ==
    /\ proc[p].pc = "get_loser_points"
    /\ LET loser == loser_of(proc[p].match, proc[p].winner)
       IN  /\ points' = get_or_create(points, loser)
           /\ proc' = [proc EXCEPT ![p].pc = "add_win",
                                   ![p].loser = loser,
                                   ![p].loser_points = points'[loser],
                                   ![p].loser_belt = IF loser \in DOMAIN points
                                                     THEN "" ELSE trainees[loser].belt_rank]
    /\ UNCHANGED <<pureVars, trainees, matchVars, results, progress, leaderboard, response>>

\* add_win up to self.save(): the instance's fields are raised and the row
\* is written from the instance.
add_win_save(p) ==
    /\ proc[p].pc = "add_win"
    /\ LET row == [total_points |-> proc[p].winner_points.total_points + WIN_POINTS,
                   wins |-> proc[p].winner_points.wins + 1,
                   losses |-> proc[p].winner_points.losses]
       IN  /\ points' = [points EXCEPT ![proc[p].winner] = row]
           /\ proc' = [proc EXCEPT ![p].pc = "check_winner", ![p].winner_points = row]
    /\ UNCHANGED <<pureVars, trainees, matchVars, results, progress, leaderboard, response>>

\* add_loss up to self.save().
add_loss_save(p) ==
    /\ proc[p].pc = "add_loss"
    /\ LET row == [total_points |-> proc[p].loser_points.total_points + LOSS_POINTS,
                   wins |-> proc[p].loser_points.wins,
                   losses |-> proc[p].loser_points.losses + 1]
       IN  /\ points' = [points EXCEPT ![proc[p].loser] = row]
           /\ proc' = [proc EXCEPT ![p].pc = "check_loser", ![p].loser_points = row]
    /\ UNCHANGED <<pureVars, trainees, matchVars, results, progress, leaderboard, response>>

\* check_belt_rank_promotion on an instance: its own total_points, the rank
\* of its trainee object (cached_belt, or the row when not yet loaded).
\* An exception ends the award at pc "failed"; otherwise it goes on at next_pc.
check_promotion_step(p, t, row, cached_belt, next_pc) ==
    LET belt == IF cached_belt = "" THEN trainees[t].belt_rank ELSE cached_belt
        r == check_belt_rank_promotion(
                 [trainees |-> [trainees EXCEPT ![t].belt_rank = belt],
                  points |-> (t :> row) @@ points, progress |-> progress], t)
    IN  /\ progress' = r.db.progress
        /\ trainees' = IF r.db.progress = progress THEN trainees
                       ELSE [trainees EXCEPT ![t].belt_rank = r.db.trainees[t].belt_rank]
        /\ proc' = [proc EXCEPT ![p].pc = IF r.raised THEN "failed" ELSE next_pc]
        /\ UNCHANGED <<pureVars, matchVars, results, points, leaderboard, response>>

check_winner(p) ==
    /\ proc[p].pc = "check_winner"
    /\ check_promotion_step(p, proc[p].winner, proc[p].winner_points, proc[p].winner_belt,
                            "add_loss")

check_loser(p) ==
    /\ proc[p].pc = "check_loser"
    /\ check_promotion_step(p, proc[p].loser, proc[p].loser_points, proc[p].loser_belt,
                            "_update_leaderboards")

\* _update_leaderboards, the three timeframes in one step.
update_leaderboards_step(p) ==
    /\ proc[p].pc = "_update_leaderboards"
    /\ \E rk_all \in RankOrders(points), rk_year \in RankOrders(points),
          rk_month \in RankOrders(points) :
           leaderboard' = _update_leaderboards(leaderboard, points, trainees,
                                               rk_all, rk_year, rk_month)
    /\ proc' = [proc EXCEPT ![p].pc = "done"]
    /\ UNCHANGED <<pureVars, trainees, matchVars, results, points, progress, response>>

\* ------------------------- specification: registrations, bouts and auto_match

\* The values the forms are posted with.
BoutPairs == {<<1, 2>>, <<1, 3>>, <<2, 3>>}
JudgeLists == {<<2, 3, 4>>}
EditStatuses == {"scheduled", "cancelled"}

Init ==
    /\ roster = <<>>
    /\ pairing = NoPairing
    /\ proposed = NoProposal
    /\ EmptyDatabase

Register ==
    /\ ~proposed.called
    /\ Len(registrations) < MaxRegs
    /\ \E e \in Events, t \in Trainees : event_register(e, t)

Unregister ==
    /\ ~proposed.called
    /\ \E e \in Events, t \in Trainees : event_unregister(e, t)

MatchAdd ==
    /\ ~proposed.called
    /\ Cardinality(MatchIds) < MaxMatches
    /\ \E e \in Events, c \in BoutPairs, js \in JudgeLists : match_add(e, c[1], c[2], js)

\* The edit form posted back with a new status.
MatchEditStatus ==
    /\ ~proposed.called
    /\ \E m \in MatchIds, st \in EditStatuses, js \in JudgeLists :
           match_edit(m, matches[m].event, matches[m].competitor1, matches[m].competitor2,
                      st, js)

\* A plausible slip: the call creates a match for each pair it returns.
AutoMatchCreating ==
    /\ ~proposed.called
    /\ \E e \in Events :
           /\ proposed' = [called |-> TRUE, event |-> e, result |-> auto_match(e)]
           /\ matches' = matches \o [k \in 1..Len(auto_match(e)) |->
                                        NewMatch(e, auto_match(e)[k].competitor1.id,
                                                 auto_match(e)[k].competitor2.id)]
    /\ UNCHANGED <<roster, pairing, trainees, registrations, match_judges, session,
                    ledgerVars>>

\* MatchmakingService.auto_match(event_id) is called and returns its list.
AutoMatch ==
    /\ ~proposed.called
    /\ \E e \in Events :
           proposed' = [called |-> TRUE, event |-> e, result |-> auto_match(e)]
    /\ UNCHANGED <<roster, pairing, trainees, matchVars, ledgerVars>>

\* The caller is done with the list.
AutoMatchReturn ==
    /\ proposed.called
    /\ proposed' = NoProposal
    /\ UNCHANGED <<roster, pairing, trainees, matchVars, ledgerVars>>

Next ==
    \/ Register
    \/ Unregister
    \/ MatchAdd
    \/ MatchEditStatus
    \/ AutoMatch
    \/ AutoMatchReturn

Spec == Init /\ [][Next]_vars

\* ------------------ specification: proposals stored in sessions and confirmed

\* The indices the confirmation form is posted with.
SelectedLists == {<<>>, <<0>>, <<0, 1>>}

ConfirmRegister ==
    /\ Len(registrations) < MaxRegs
    /\ \E e \in Events, t \in Trainees : event_register(e, t)

ConfirmMatchAdd ==
    /\ Cardinality(MatchIds) < MaxConfirmMatches
    /\ \E e \in Events, c \in BoutPairs, js \in JudgeLists : match_add(e, c[1], c[2], js)

AutoMatchmaking == \E s \in Sessions, e \in Events : auto_matchmaking(s, e)

AutoMatchmakingConfirm ==
    \E s \in Sessions, sel \in SelectedLists :
        /\ Cardinality(MatchIds) + Len(sel) <= MaxConfirmMatches
        /\ auto_matchmaking_confirm(s, sel)

NextConfirm ==
    \/ ConfirmRegister
    \/ ConfirmMatchAdd
    \/ AutoMatchmaking
    \/ AutoMatchmakingConfirm

SpecConfirm == Init /\ [][NextConfirm]_vars

\* ------------------------------- specification: judges assigned to bouts

\* The judge lists the forms and calls are given: judge 1 is also trainee 3.
AssignLists == {<<2, 3, 4>>, <<1, 2, 3>>, <<2, 3>>, <<2, 2, 3>>}
FormJudgeLists == {<<2, 3, 4>>, <<1, 2, 3>>}
\* The trainees who are also judges.
LinkedTrainees == {JudgeTrainee[j] : j \in Judges} \ {None}

InitJudges ==
    /\ roster = <<>>
    /\ pairing = NoPairing
    /\ proposed = NoProposal
    /\ trainees = TraineeTable
    /\ registrations = <<>>
    /\ matches = <<>>
    /\ match_judges = {}
    /\ session = [s \in Sessions |-> NoSession]
    /\ results = <<>>
    /\ points = <<>>
    /\ progress = <<>>
    /\ leaderboard = {}
    /\ response = NoCall
    /\ proc = NoRequests

JudgeRegister ==
    /\ ~response.called
    /\ Len(registrations) < MaxRegs
    /\ \E e \in Events, t \in LinkedTrainees : event_register(e, t)

JudgeUnregister ==
    /\ ~response.called
    /\ \E e \in Events, t \in LinkedTrainees : event_unregister(e, t)

JudgeMatchAdd ==
    /\ ~response.called
    /\ Cardinality(MatchIds) < MaxMatches
    /\ \E e \in Events, c \in BoutPairs, js \in FormJudgeLists :
           match_add(e, c[1], c[2], js)

JudgeMatchEdit ==
    /\ ~response.called
    /\ \E m \in MatchIds, st \in EditStatuses, js \in FormJudgeLists :
           match_edit(m, matches[m].event, matches[m].competitor1, matches[m].competitor2,
                      st, js)

CreateMatch ==
    /\ ~response.called
    /\ Cardinality(MatchIds) < MaxMatches
    /\ \E e \in Events, c \in BoutPairs, js \in FormJudgeLists :
           create_match(e, c[1], c[2], js)

AssignJudges ==
    /\ ~response.called
    /\ \E m \in MatchIds, js \in AssignLists : assign_judges(m, js)

\* The caller is done with the returned value.
AssignReturn ==
    /\ response.called
    /\ response' = NoCall
    /\ UNCHANGED <<pureVars, trainees, matchVars, results, points, progress, leaderboard,
                    proc>>

NextJudges ==
    \/ JudgeRegister
    \/ JudgeUnregister
    \/ JudgeMatchAdd
    \/ JudgeMatchEdit
    \/ CreateMatch
    \/ AssignJudges
    \/ AssignReturn

SpecJudges == InitJudges /\ [][NextJudges]_vars

\* ----------------------------- specification: bouts and their recorded results

\* The belt_rank values the trainee form is posted with.
EditBelts == {"orange", "purple"}
\* The judges who submit results.
ResultJudges == {1, 2}

ResultMatchAdd ==
    /\ Cardinality(MatchIds) < MaxResultMatches
    /\ \E c \in BoutPairs, js \in JudgeLists : match_add(1, c[1], c[2], js)

TraineeEdit == \E t \in Trainees, b \in EditBelts : trainee_edit(t, b)

ResultEntry ==
    \E j \in ResultJudges, m \in MatchIds, w \in Trainees : result_entry(j, m, w)

NextResult ==
    \/ ResultMatchAdd
    \/ TraineeEdit
    \/ ResultEntry

SpecResult == Init /\ [][NextResult]_vars

\* ------------------------------------------- bouts, results and bout edits

BoutAdd ==
    /\ Cardinality(MatchIds) < MaxMatches
    /\ \E c \in BoutPairs, js \in JudgeLists : match_add(1, c[1], c[2], js)

BoutEdit ==
    \E m \in MatchIds, c \in BoutPairs, st \in EditStatuses, js \in JudgeLists :
        match_edit(m, 1, c[1], c[2], st, js)

NextBout ==
    \/ BoutAdd
    \/ BoutEdit
    \/ ResultEntry

SpecBout == Init /\ [][NextBout]_vars

\* ------------------------------------ bouts with status edits and deletion

\* match_delete: match.delete() removes the row and, by on_delete=CASCADE,
\* its MatchJudge rows and its MatchResult.  Rows are identified here by
\* their position in matches, so the later rows move down by one.
match_delete(match_id) ==
    /\ match_id \in MatchIds
    /\ LET old(k) == IF k < match_id THEN k ELSE k + 1
           new(m) == IF m > match_id THEN m - 1 ELSE m
       IN  /\ matches' = [k \in 1..(Len(matches) - 1) |-> matches[old(k)]]
           /\ match_judges' = {<<new(mj[1]), mj[2]>> :
                                  mj \in {x \in match_judges : x[1] # match_id}}
           /\ results' = [k \in {new(m) : m \in DOMAIN results \ {match_id}} |->
                              results[old(k)]]
    /\ UNCHANGED <<pureVars, trainees, registrations, session, points, progress,
                    leaderboard, response, proc>>

\* match_edit with the status field of the form set to 'completed'.
BoutComplete ==
    \E m \in MatchIds, c \in BoutPairs, js \in JudgeLists :
        match_edit(m, 1, c[1], c[2], "completed", js)

\* Deletions stop once a trainee has more than MaxMatches recorded bouts,
\* which keeps the points finite.
BoutDelete ==
    /\ \A t \in DOMAIN points : points[t].wins + points[t].losses <= MaxMatches
    /\ \E m \in MatchIds : match_delete(m)

NextStatus ==
    \/ BoutAdd
    \/ BoutEdit
    \/ BoutComplete
    \/ ResultEntry
    \/ BoutDelete

SpecStatus == Init /\ [][NextStatus]_vars

\* ------------------------------------------- the points ledger and the ranks

\* The trainee whose points are updated, and the ranks, notes and users the
\* promotion form posts ('red' is not a rank).
LedgerTrainees == {1}
PromoteRanks == {"white", "green", "black", "red"}
PromoteNotes == {"", "passed the exam"}
Admins == {1, 2}

Overrides == {k \in 1..Len(progress) : progress[k].promotion_type = "admin_override"}

\* One points update of trainee t: get_or_create of the row, then add_win
\* (won) or add_loss.
points_update(t, won) ==
    /\ LET row == get_or_create(points, t)[t]
       IN  row.wins + row.losses < MaxAwards
    /\ LET db == [trainees |-> trainees, points |-> get_or_create(points, t),
                  progress |-> progress]
           r == IF won THEN add_win(db, t) ELSE add_loss(db, t)
       IN  /\ trainees' = r.db.trainees
           /\ points' = r.db.points
           /\ progress' = r.db.progress
           /\ response' = IF r.raised THEN "ValueError" ELSE "awarded"
    /\ UNCHANGED <<pureVars, matchVars, results, leaderboard, proc>>

AddWin == \E t \in LedgerTrainees : points_update(t, TRUE)

AddLoss == \E t \in LedgerTrainees : points_update(t, FALSE)

BeltRankPromote ==
    /\ Cardinality(Overrides) < MaxOverrides
    /\ \E t \in LedgerTrainees, b \in PromoteRanks, u \in Admins, n \in PromoteNotes :
           belt_rank_promote(t, b, u, n)

NextLedger ==
    \/ AddWin
    \/ AddLoss
    \/ BeltRankPromote

SpecLedger == Init /\ [][NextLedger]_vars

\* --------------------- specification: two result_entry requests side by side

\* Two scheduled bouts of event 1 that share trainee 1, as two match_add
\* requests leave them, each with the judges 2, 3 and 4.
InitConc ==
    /\ roster = <<>>
    /\ pairing = NoPairing
    /\ proposed = NoProposal
    /\ trainees = TraineeTable
    /\ registrations = <<>>
    /\ matches = <<NewMatch(1, 1, 2), NewMatch(1, 1, 3)>>
    /\ match_judges = {<<m, j>> : m \in {1, 2}, j \in {2, 3, 4}}
    /\ session = [s \in Sessions |-> NoSession]
    /\ results = <<>>
    /\ points = <<>>
    /\ progress = <<>>
    /\ leaderboard = {}
    /\ response = "none"
    /\ proc = NoRequests

\* Request p is sent by judge p + 1.
BeginResultEntry ==
    \E p \in Requests, m \in MatchIds, w \in Trainees : begin_result_entry(p, p + 1, m, w)

NextConc ==
    \/ BeginResultEntry
    \/ \E p \in Requests : super_save(p)
    \/ \E p \in Requests : match_save(p)
    \/ \E p \in Requests : get_winner_points(p)
    \/ \E p \in Requests : get_loser_points(p)
    \/ \E p \in Requests : add_win_save(p)
    \/ \E p \in Requests : check_winner(p)
    \/ \E p \in Requests : add_loss_save(p)
    \/ \E p \in Requests : check_loser(p)
    \/ \E p \in Requests : update_leaderboards_step(p)

SpecConc == InitConc /\ [][NextConc]_vars

\* --------------------------------------------- specifications of the pure part

\* The attribute values the pair specification draws from: weights 2.5 kg,
\* 5 kg and 5.01 kg apart, ranks equal, adjacent, two apart and unknown, ages
\* missing, zero, three and four years apart.
PairWeights == {6000, 6250, 6500, 6501}
PairBelts == {"white", "yellow", "orange", "black", "purple"}
PairAges == {None, 0, 3, 4, 14}

PairProfiles(id) ==
    {[id |-> id, weight |-> w, belt_rank |-> b, age |-> a] :
        w \in PairWeights, b \in PairBelts, a \in PairAges}

InitPair ==
    /\ roster \in {<<a>> : a \in PairProfiles(1)}
    /\ pairing = NoPairing
    /\ proposed = NoProposal
    /\ EmptyDatabase

\* The second trainee of the pair is drawn.
DrawOpponent ==
    /\ Len(roster) = 1
    /\ \E b \in PairProfiles(2) : roster' = Append(roster, b)
    /\ UNCHANGED <<pairing, proposed, trainees, matchVars, ledgerVars>>

\* _is_valid_pairing and _calculate_pairing_score applied to the pair, both ways round.
EvaluatePair ==
    /\ Len(roster) = 2
    /\ ~pairing.done
    /\ pairing' = [done |-> TRUE,
                   valid |-> _is_valid_pairing(roster[1], roster[2]),
                   score |-> _calculate_pairing_score(roster[1], roster[2]),
                   valid_ba |-> _is_valid_pairing(roster[2], roster[1]),
                   score_ba |-> _calculate_pairing_score(roster[2], roster[1])]
    /\ UNCHANGED <<roster, proposed, trainees, matchVars, ledgerVars>>

NextPair == DrawOpponent \/ EvaluatePair

SpecPair == InitPair /\ [][NextPair]_vars

\* The attribute values the roster specification draws from.
RosterWeights == {6000, 6200, 6600}
RosterBelts == {"white", "yellow", "orange"}
RosterAges == {10}

RosterProfiles(id) ==
    {[id |-> id, weight |-> w, belt_rank |-> b, age |-> a] :
        w \in RosterWeights, b \in RosterBelts, a \in RosterAges}

InitMatch ==
    /\ roster = <<>>
    /\ pairing = NoPairing
    /\ proposed = NoProposal
    /\ EmptyDatabase

\* One more trainee is available, the k-th with id k: a trainee has one
\* registration per event (unique_together), so the list holds no one twice.
AddAvailable ==
    /\ ~proposed.called
    /\ Len(roster) < MaxRoster
    /\ \E t \in RosterProfiles(Len(roster) + 1) : roster' = Append(roster, t)
    /\ UNCHANGED <<pairing, proposed, trainees, matchVars, ledgerVars>>

\* auto_match applied to the list of available trainees.
Propose ==
    /\ ~proposed.called
    /\ proposed' = [called |-> TRUE, event |-> None, result |-> propose_from(roster)]
    /\ UNCHANGED <<roster, pairing, trainees, matchVars, ledgerVars>>

NextMatch == AddAvailable \/ Propose

SpecMatch == InitMatch /\ [][NextMatch]_vars

\* The worked roster: A, B, C, and two more trainees D and E.
ExampleA == [id |-> 1, weight |-> 6000, belt_rank |-> "yellow", age |-> 20]
ExampleB == [id |-> 2, weight |-> 6200, belt_rank |-> "yellow", age |-> 21]
ExampleC == [id |-> 3, weight |-> 6100, belt_rank |-> "orange", age |-> 40]
ExampleD == [id |-> 4, weight |-> 6300, belt_rank |-> "orange", age |-> 38]
ExampleE == [id |-> 5, weight |-> 6100, belt_rank |-> "yellow", age |-> 22]
ExamplePool == {ExampleA, ExampleB, ExampleC, ExampleD, ExampleE}

\* One more trainee of the pool is available, in any order, no one twice.
AddExample ==
    /\ ~proposed.called
    /\ ~pairing.done
    /\ Len(roster) < MaxRoster
    /\ \E t \in ExamplePool \ SeqToSet(roster) : roster' = Append(roster, t)
    /\ UNCHANGED <<pairing, proposed, trainees, matchVars, ledgerVars>>

NextExample == AddExample \/ EvaluatePair \/ Propose

SpecExample == InitMatch /\ [][NextExample]_vars

\* ------------------------------------------------ claims on the pure part

\* The rank constraint as the specification words it: both ranks are in the
\* seven-level order and their positions differ by at most one.
SameOrAdjacentRank(b1, b2) ==
    \E i, j \in 1..7 : BELT_ORDER[i] = b1 /\ BELT_ORDER[j] = b2 /\ abs(i - j) <= 1

KnownRank(b) == \E i \in 1..7 : BELT_ORDER[i] = b

RankPosition(b) == CHOOSE i \in 1..7 : BELT_ORDER[i] = b

\* C5: auto_match never returns a competitor twice: the two competitors of a
\* returned pair are distinct and two returned pairs share no competitor.
C5_NoCompetitorTwice ==
    proposed.called =>
        LET r == proposed.result
        IN  /\ \A k \in 1..Len(r) : r[k].competitor1.id # r[k].competitor2.id
            /\ \A k, l \in 1..Len(r) :
                   k # l => {r[k].competitor1.id, r[k].competitor2.id}
                            \cap {r[l].competitor1.id, r[l].competitor2.id} = {}

\* Two pairs are returned from a list in which a third valid pair was passed
\* over because one of its trainees was used.
C5_Witness ==
    /\ proposed.called
    /\ Len(proposed.result) = 2
    /\ Len(all_pairings(roster)) > 2

\* C6: _is_valid_pairing is true exactly when the weights are at most 5.0 kg
\* apart, the ranks are the same or adjacent in the seven-level order, and
\* an age is undetermined or the ages are at most 3 years apart.
C6_EligibleExactly ==
    pairing.done =>
        LET a == roster[1]
            b == roster[2]
        IN  pairing.valid <=>
                /\ abs(a.weight - b.weight) <= 500
                /\ SameOrAdjacentRank(a.belt_rank, b.belt_rank)
                /\ \/ a.age = None
                   \/ b.age = None
                   \/ abs(a.age - b.age) <= 3

\* A pair exactly 5.0 kg apart with one age undetermined and the other 14 is valid.
C6_Witness ==
    /\ pairing.done
    /\ pairing.valid
    /\ abs(roster[1].weight - roster[2].weight) = 500
    /\ roster[1].age = None
    /\ roster[2].age = 14

\* C7: a pair whose rank positions differ by more than one is invalid whatever
\* the weights and ages, and so is a pair with a rank outside the ordered
\* list, also when both carry the same unknown rank.
C7_RankGapOrUnknownIneligible ==
    pairing.done =>
        LET b1 == roster[1].belt_rank
            b2 == roster[2].belt_rank
        IN  /\ (~KnownRank(b1) \/ ~KnownRank(b2)) => ~pairing.valid
            /\ (KnownRank(b1) /\ KnownRank(b2)
                    /\ abs(RankPosition(b1) - RankPosition(b2)) > 1) => ~pairing.valid

\* Two trainees of equal weight and no age, both of the unknown rank, are invalid.
C7_Witness ==
    /\ pairing.done
    /\ ~pairing.valid
    /\ roster[1].belt_rank = "purple"
    /\ roster[2].belt_rank = "purple"
    /\ roster[1].weight = roster[2].weight
    /\ roster[1].age = None

\* C8: for a valid pair the score is 2 * weight difference + 3 * rank
\* position difference + age difference with 0 for a missing age (here in
\* hundredths), and it is the same with the two trainees exchanged.
C8_ScoreFormula ==
    (pairing.done /\ pairing.valid) =>
        LET a == roster[1]
            b == roster[2]
            ageA == IF a.age = None THEN 0 ELSE a.age
            ageB == IF b.age = None THEN 0 ELSE b.age
            rankDiff == abs(RankPosition(a.belt_rank) - RankPosition(b.belt_rank))
        IN  /\ pairing.score = 2 * abs(a.weight - b.weight)
                                + 3 * 100 * rankDiff
                                + 1 * 100 * abs(ageA - ageB)
            /\ pairing.score_ba = pairing.score

\* A valid pair 2.5 kg and one rank apart, one age missing and the other 14.
C8_Witness ==
    /\ pairing.done
    /\ pairing.valid
    /\ roster[1].age = 14
    /\ roster[2].age = None
    /\ roster[1].belt_rank = "yellow"
    /\ roster[2].belt_rank = "white"
    /\ abs(roster[1].weight - roster[2].weight) = 250
    /\ pairing.score = 500 + 300 + 1400

\* The valid pairs of the list as positions <<i, j>>, i before j, and the
\* order in which the matchmaker considers them: by score, then by
\* enumeration order.
EligiblePositions ==
    {p \in (1..Len(roster)) \X (1..Len(roster)) :
        p[1] < p[2] /\ _is_valid_pairing(roster[p[1]], roster[p[2]])}

ScoreAt(p) == _calculate_pairing_score(roster[p[1]], roster[p[2]])

ConsideredBefore(p, q) ==
    \/ ScoreAt(p) < ScoreAt(q)
    \/ /\ ScoreAt(p) = ScoreAt(q)
       /\ (p[1] < q[1] \/ (p[1] = q[1] /\ p[2] < q[2]))

SelectedPositions ==
    {<<proposed.result[k].competitor1.id, proposed.result[k].competitor2.id>> :
        k \in 1..Len(proposed.result)}

\* C10: the selected pairs come back in non-decreasing score order, and a
\* valid pair is selected exactly when no pair considered before it (lower
\* score, or equal score and enumerated earlier) that shares a trainee with
\* it was selected.
C10_AscendingStableOrder ==
    proposed.called =>
        LET r == proposed.result
        IN  /\ \A k \in 1..(Len(r) - 1) : r[k].score <= r[k + 1].score
            /\ \A k \in 1..(Len(r) - 1) :
                   ConsideredBefore(<<r[k].competitor1.id, r[k].competitor2.id>>,
                                    <<r[k + 1].competitor1.id, r[k + 1].competitor2.id>>)
            /\ SelectedPositions \subseteq EligiblePositions
            /\ \A p \in EligiblePositions :
                   p \in SelectedPositions <=>
                       ~\E q \in SelectedPositions :
                           /\ q # p
                           /\ ConsideredBefore(q, p)
                           /\ {q[1], q[2]} \cap {p[1], p[2]} # {}

\* Three trainees whose three pairs are valid with one score: the first
\* enumerated pair, <<1, 2>>, is the one selected.
C10_Witness ==
    /\ proposed.called
    /\ Len(roster) = 3
    /\ EligiblePositions = {<<1, 2>>, <<1, 3>>, <<2, 3>>}
    /\ ScoreAt(<<1, 2>>) = ScoreAt(<<1, 3>>)
    /\ ScoreAt(<<1, 3>>) = ScoreAt(<<2, 3>>)
    /\ SelectedPositions = {<<1, 2>>}

\* ------------------------------------------- claims on the matchmaking forms

\* The two sides of a match.
Sides(m) == {m.competitor1, m.competitor2}

\* C4: a confirmation never books a competitor twice: every bout a
\* confirmation step creates has no competitor who is a side of another
\* non-cancelled bout of the same event.
C4_ConfirmRejectsBooked ==
    [][\A s \in Sessions :
          (session[s] # NoSession /\ session'[s] = NoSession) =>
              \A m \in (DOMAIN matches') \ (DOMAIN matches) :
                  \A o \in (DOMAIN matches') \ {m} :
                      (matches'[o].event = matches'[m].event
                       /\ matches'[o].status # "cancelled")
                          => Sides(matches'[o]) \cap Sides(matches'[m]) = {}]_vars

\* The trainee has a registration with status 'registered' for the event.
IsRegistered(e, t) ==
    \E r \in 1..Len(registrations) :
        /\ registrations[r].event = e
        /\ registrations[r].trainee = t
        /\ registrations[r].status = "registered"

\* The trainee is on a side of a non-cancelled bout of the event.
IsBooked(e, t) ==
    \E m \in MatchIds :
        matches[m].event = e /\ matches[m].status # "cancelled" /\ t \in Sides(matches[m])

\* The competitors of the list auto_match returned.
Returned ==
    UNION {{proposed.result[k].competitor1.id, proposed.result[k].competitor2.id} :
              k \in 1..Len(proposed.result)}

\* C9: every competitor auto_match returns for an event has a registration
\* with status 'registered' for that event and is on neither side of a
\* non-cancelled bout of that event; cancelled bouts and bouts of other
\* events block nobody: of two eligible trainees who are registered and not
\* booked in the event, at least one is returned.
C9_ReturnedAreRegisteredAndUnbooked ==
    proposed.called =>
        /\ \A c \in Returned : IsRegistered(proposed.event, c) /\ ~IsBooked(proposed.event, c)
        /\ \A a \in Trainees, b \in Trainees :
               (/\ a # b
                /\ IsRegistered(proposed.event, a) /\ ~IsBooked(proposed.event, a)
                /\ IsRegistered(proposed.event, b) /\ ~IsBooked(proposed.event, b)
                /\ _is_valid_pairing(Trainee(a), Trainee(b)))
                   => (a \in Returned \/ b \in Returned)

\* A competitor whose only bout in the event is cancelled is returned.
C9_Witness ==
    /\ proposed.called
    /\ Len(proposed.result) = 1
    /\ \E m \in MatchIds :
           /\ matches[m].event = proposed.event
           /\ matches[m].status = "cancelled"
           /\ proposed.result[1].competitor1.id \in Sides(matches[m])

\* --------------------------------------------- claims on the recorded results

\* The TraineePoints row of a trainee, all zero when there is none.
PointsOf(t) == IF t \in DOMAIN points THEN points[t] ELSE NoPoints

\* The recorded results the trainee won, and those the trainee lost.
WonResults(t) == {m \in DOMAIN results : results[m].winner = t}
LostResults(t) == {m \in DOMAIN results : loser_of(matches[m], results[m].winner) = t}

\* C1: over any sequence of submissions every recorded result has given
\* its winner +30 points and 1 win and its other competitor +10 points and
\* 1 loss exactly once: each PointsRecord is the sum of the awards of the
\* recorded results.
C1_AwardExactlyOnce ==
    \A t \in Trainees :
        PointsOf(t) = [total_points |-> 30 * Cardinality(WonResults(t))
                                          + 10 * Cardinality(LostResults(t)),
                       wins |-> Cardinality(WonResults(t)),
                       losses |-> Cardinality(LostResults(t))]

\* C3: the chain is all-or-nothing: a step that saves a result also saves
\* the winner's +30 and the loser's +10, promotes each side that has
\* reached the threshold of its next rank, and leaves a leaderboard row
\* with the current points for every PointsRecord in every timeframe.
C3_ChainAllOrNothing ==
    [][\A m \in (DOMAIN results') \ (DOMAIN results) :
          LET w == results'[m].winner
              l == loser_of(matches'[m], w)
          IN  /\ w \in DOMAIN points' /\ l \in DOMAIN points'
              /\ points'[w].total_points = PointsOf(w).total_points + 30
              /\ points'[l].total_points = PointsOf(l).total_points + 10
              /\ \A t \in {w, l} :
                     LET k == choices_index(trainees[t].belt_rank)
                     IN  (/\ k # 0 /\ k < Len(BELT_CHOICES)
                          /\ BELT_CHOICES[k + 1] \in DOMAIN ThresholdTable
                          /\ points'[t].total_points >= ThresholdTable[BELT_CHOICES[k + 1]])
                             => trainees'[t].belt_rank = BELT_CHOICES[k + 1]
              /\ \A t \in DOMAIN points', tf \in Timeframes :
                     \E row \in leaderboard' :
                         /\ row.trainee = t /\ row.timeframe = tf
                         /\ row.points = points'[t].total_points]_vars

\* C2: when two results that involve the same competitor are recorded
\* side by side, then once both requests are through, for every
\* interleaving of their statements, each competitor's total points, wins
\* and losses are the sums of the awards of both results.
C2_NoLostUpdate ==
    (\A p \in Requests : proc[p].pc = "done") =>
        \A t \in Trainees :
            /\ PointsOf(t).total_points = 30 * Cardinality(WonResults(t))
                                            + 10 * Cardinality(LostResults(t))
            /\ PointsOf(t).wins = Cardinality(WonResults(t))
            /\ PointsOf(t).losses = Cardinality(LostResults(t))

\* ------------------------------------------------ claims on the worked roster

\* C11: with the available roster A, B, C, in any order, auto_match returns
\* exactly one pair, A with B, with score 5, and C is in no pair.
C11_ExampleSelectsAB ==
    (proposed.called /\ SeqToSet(roster) = {ExampleA, ExampleB, ExampleC}) =>
        /\ Len(proposed.result) = 1
        /\ {proposed.result[1].competitor1, proposed.result[1].competitor2}
               = {ExampleA, ExampleB}
        /\ proposed.result[1].score = 500

\* The roster C, B, A has been proposed for.
C11_Witness ==
    /\ proposed.called
    /\ roster = <<ExampleC, ExampleB, ExampleA>>
    /\ Len(proposed.result) = 1

\* The pair A, C has been evaluated, either way round.
EvaluatedAC ==
    pairing.done /\ (roster = <<ExampleA, ExampleC>> \/ roster = <<ExampleC, ExampleA>>)

\* C12 as stated: the pair A, C is eligible and its score is 25.
C12_EligibleWithScore25 ==
    EvaluatedAC => (pairing.valid /\ pairing.score = 2500)

\* C12, amended: the pair A, C is not eligible, since the ages 20 and 40
\* are more than 3 years apart (the weights are within 5 kg and the ranks
\* are adjacent); the value the scorer computes for it is 2*1 + 3*1 + 20 = 25.
C12_IneligibleByAge ==
    EvaluatedAC =>
        /\ ~pairing.valid /\ ~pairing.valid_ba
        /\ pairing.score = 2500 /\ pairing.score_ba = 2500
        /\ abs(ExampleA.weight - ExampleC.weight) <= 500
        /\ SameOrAdjacentRank(ExampleA.belt_rank, ExampleC.belt_rank)
        /\ abs(ExampleA.age - ExampleC.age) > 3

C12_Witness == EvaluatedAC /\ roster[1] = ExampleA /\ ~pairing.valid

\* A roster of four of equal weight and age: white, yellow, yellow, orange.
GreedyRoster ==
    <<[id |-> 1, weight |-> 6000, belt_rank |-> "white", age |-> 10],
      [id |-> 2, weight |-> 6000, belt_rank |-> "yellow", age |-> 10],
      [id |-> 3, weight |-> 6000, belt_rank |-> "yellow", age |-> 10],
      [id |-> 4, weight |-> 6000, belt_rank |-> "orange", age |-> 10]>>

\* C13: the greedy selection is not optimal: for the roster white, yellow,
\* yellow, orange auto_match returns one pair (the two yellows, score 0)
\* although two pairwise-disjoint eligible pairs exist (white with a
\* yellow, the other yellow with orange).
C13_GreedyNotOptimal ==
    (proposed.called /\ roster = GreedyRoster) =>
        /\ Len(proposed.result) = 1
        /\ \E p \in EligiblePositions, q \in EligiblePositions :
               {p[1], p[2]} \cap {q[1], q[2]} = {}

C13_Witness ==
    /\ proposed.called
    /\ roster = GreedyRoster
    /\ SelectedPositions = {<<2, 3>>}

C15_CanAssignExactly ==
    \A j \in Judges, e \in Events :
        validate_judge_assignment(j, e)
            = (\/ JudgeTrainee[j] = None
               \/ ~(IsRegistered(e, JudgeTrainee[j]) \/ IsBooked(e, JudgeTrainee[j])))

\* Judge 1 (trainee 3) may be assigned in event 1, where the trainee has a
\* withdrawn registration and a cancelled bout, and not in event 2, where
\* the trainee is registered.
C15_Witness ==
    /\ ~response.called
    /\ validate_judge_assignment(1, 1)
    /\ ~validate_judge_assignment(1, 2)
    /\ \E r \in 1..Len(registrations) :
           /\ registrations[r].event = 1 /\ registrations[r].trainee = 3
           /\ registrations[r].status = "cancelled"
    /\ \E m \in MatchIds :
           matches[m].event = 1 /\ matches[m].status = "cancelled" /\ 3 \in Sides(matches[m])
    /\ IsRegistered(2, 3)

\* C16: no judge assigned to a non-cancelled bout of an event has a linked
\* trainee who is registered for that event or is a side of a non-cancelled
\* bout of that event.
C16_NoConflictedJudgeAssigned ==
    \A mj \in match_judges :
        matches[mj[1]].status # "cancelled" =>
            (\/ JudgeTrainee[mj[2]] = None
             \/ ~(\/ IsRegistered(matches[mj[1]].event, JudgeTrainee[mj[2]])
                  \/ IsBooked(matches[mj[1]].event, JudgeTrainee[mj[2]])))

\* The judge's linked trainee is registered for the event or a side of a
\* non-cancelled bout of it.
Conflicted(j, e) ==
    JudgeTrainee[j] # None /\ (IsRegistered(e, JudgeTrainee[j]) \/ IsBooked(e, JudgeTrainee[j]))

\* C17: an assign_judges call with fewer than 3 judges, or with a judge who
\* fails the conflict validator, returns False (no exception) and leaves
\* every MatchJudge row as it was: none created, none deleted.
C17_RejectionChangesNothing ==
    (/\ response.called
     /\ \/ Len(response.judge_ids) < 3
        \/ \E k \in 1..Len(response.judge_ids) :
               Conflicted(response.judge_ids[k], matches[response.match_id].event))
        => (response.returned = "False" /\ match_judges = response.before)

\* A list of three with a conflicted judge was rejected for a bout that
\* has judges.
C17_Witness ==
    /\ response.called
    /\ response.returned = "False"
    /\ Len(response.judge_ids) = 3
    /\ \E mj \in match_judges : mj[1] = response.match_id

C19_LockedResultIsImmutable ==
    [][\A j \in ResultJudges, m \in MatchIds, w \in Trainees :
          (m \in DOMAIN results /\ results[m].is_locked /\ result_entry(j, m, w))
              => /\ response' \in {"locked", "not_assigned"}
                 /\ UNCHANGED <<results, matches, points, progress, trainees, leaderboard>>]_vars

\* A submission was turned down because the result is locked.
C19_Witness ==
    /\ response = "locked"
    /\ \E m \in DOMAIN results : results[m].is_locked

\* C20: the winner of a bout, when set, is one of its two competitors.
C20_WinnerIsACompetitor ==
    \A m \in MatchIds :
        matches[m].winner # None => matches[m].winner \in Sides(matches[m])

\* C21: every bout with status 'completed' has a result record (the
\* one-to-one key allows at most one).
C21_CompletedHasResult ==
    \A m \in MatchIds : matches[m].status = "completed" => m \in DOMAIN results

\* ------------------------------------------------ claims on the points ledger

\* C22: every trainee's total is 30 * wins + 10 * losses, and no step lowers
\* a trainee's total, wins or losses.
C22_TotalsExactAndMonotonic ==
    /\ [](\A t \in DOMAIN points :
             points[t].total_points = 30 * points[t].wins + 10 * points[t].losses)
    /\ [][\A t \in DOMAIN points :
             /\ t \in DOMAIN points'
             /\ points'[t].total_points >= points[t].total_points
             /\ points'[t].wins >= points[t].wins
             /\ points'[t].losses >= points[t].losses]_vars

\* A step that is a points update of trainee t.
AwardStep(t) == t \in DOMAIN points' /\ points'[t] # PointsOf(t)

\* The rank after the one BELT_CHOICES holds in position k.
NextRank(k) == BELT_CHOICES[k + 1]

\* C23: a points update moves the trainee to the next rank exactly when the
\* trainee is below the top rank, a threshold exists for the next rank and
\* the total after the update reaches it; otherwise the rank stays.  The
\* move is one rank only, never backward, and a missing threshold ends
\* without an error.
C23_OneStepPromotion ==
    [][\A t \in Trainees : AwardStep(t) =>
          LET k == choices_index(trainees[t].belt_rank)
          IN  IF /\ k < Len(BELT_CHOICES)
                 /\ NextRank(k) \in DOMAIN ThresholdTable
                 /\ points'[t].total_points >= ThresholdTable[NextRank(k)]
              THEN trainees'[t].belt_rank = NextRank(k)
              ELSE /\ trainees'[t].belt_rank = trainees[t].belt_rank
                   /\ response' = "awarded"]_vars

\* A white belt whose total also meets the threshold of orange has moved to
\* yellow, and a trainee with no threshold for the next rank was updated.
C23_Witness ==
    /\ response = "awarded"
    /\ Len(progress) > 0
    /\ LET last == progress[Len(progress)]
       IN  /\ last.promotion_type = "automatic"
           /\ last.old_belt_rank = "white"
           /\ last.points_earned >= ThresholdTable["orange"]
           /\ trainees[last.trainee].belt_rank = "yellow"

\* C24: a points update that changes the rank appends exactly one
\* BeltRankProgress row, of type automatic, from the rank before to the
\* next rank, with the total after the update; an update that does not
\* change the rank writes no row.
C24_AutomaticRecord ==
    [][\A t \in Trainees : AwardStep(t) =>
          IF trainees'[t].belt_rank # trainees[t].belt_rank
          THEN /\ trainees'[t].belt_rank = NextRank(choices_index(trainees[t].belt_rank))
               /\ progress' = Append(progress,
                      [trainee |-> t,
                       old_belt_rank |-> trainees[t].belt_rank,
                       new_belt_rank |-> trainees'[t].belt_rank,
                       points_earned |-> points'[t].total_points,
                       promotion_type |-> "automatic"])
          ELSE progress' = progress]_vars

\* An update has promoted and written its row, after an earlier update that
\* wrote none.
C24_Witness ==
    /\ response = "awarded"
    /\ Len(progress) = 1
    /\ progress[1].promotion_type = "automatic"
    /\ progress[1].points_earned = PointsOf(progress[1].trainee).total_points
    /\ PointsOf(progress[1].trainee).losses > 0

BoardRows(timeframe) == {row \in leaderboard : row.timeframe = timeframe}

\* C26: after a recorded result the all-time board has exactly one row for
\* each trainee with a points row and no other, the ranks are 1..N, a
\* trainee with strictly more points has a strictly smaller rank, and each
\* row carries the trainee's current total.
C26_AllTimeBoardIsRanking ==
    response = "recorded" =>
        LET rows == BoardRows("all_time")
        IN  /\ \A t \in DOMAIN points : Cardinality({r \in rows : r.trainee = t}) = 1
            /\ \A r \in rows : r.trainee \in DOMAIN points
            /\ {r.rank : r \in rows} = 1..Cardinality(DOMAIN points)
            /\ \A r \in rows : r.points = PointsOf(r.trainee).total_points
            /\ \A a \in rows, b \in rows :
                   PointsOf(a.trainee).total_points > PointsOf(b.trainee).total_points
                       => a.rank < b.rank

C28_PromotedOnce ==
    \A j \in 1..Len(progress), k \in 1..Len(progress) :
        (/\ j # k
         /\ progress[j].promotion_type = "automatic"
         /\ progress[k].promotion_type = "automatic"
         /\ progress[j].trainee = progress[k].trainee)
            => \/ progress[j].old_belt_rank # progress[k].old_belt_rank
               \/ progress[j].new_belt_rank # progress[k].new_belt_rank

\* ------------------------------------------------ claims on maximal matching

\* The positions of the roster that are in no selected pair.
UnselectedPositions ==
    {i \in 1..Len(roster) : \A q \in SelectedPositions : i \notin {q[1], q[2]}}

\* C29: the pairs auto_match returns are a maximal matching: no two
\* available trainees that were both left out form a valid pairing.
C29_MaximalMatching ==
    proposed.called =>
        \A i \in UnselectedPositions, j \in UnselectedPositions :
            i # j => ~_is_valid_pairing(roster[i], roster[j])

\* Two pairs were selected after valid pairings with a used trainee were
\* passed over.
C29_Witness ==
    /\ proposed.called
    /\ Len(roster) = 4
    /\ Cardinality(SelectedPositions) = 2
    /\ Cardinality(EligiblePositions) = 4

\* ------------------------------------------- claims on assign_judges, again

\* The judges of match m in a set of MatchJudge rows.
JudgesIn(rows, m) == {mj[2] : mj \in {x \in rows : x[1] = m}}

\* C30: after an assign_judges call, however it ended, the judges of the
\* bout are those it had before the call or exactly those requested, and
\* in the second case they are at least 3 different judges.
C30_AllOrNothing ==
    response.called =>
        LET now == JudgesIn(match_judges, response.match_id)
            requested == SeqToSet(response.judge_ids)
        IN  \/ now = JudgesIn(response.before, response.match_id)
            \/ (now = requested /\ Cardinality(requested) >= 3)

=============================================================================
